---- MODULE Spec2Model ----
(***************************************************************************)
(* Model of mcp-google-docs: the configuration resolver (src/config.py),   *)
(* the folder alias registry it exposes, and the start-up and tool         *)
(* dispatch of src/main.py over src/google_drive.py.                       *)
(*                                                                         *)
(* Python strings are modelled as sequences of one-character strings, so   *)
(* that split/strip/`in` are computed character by character.  An optional *)
(* value (an environment variable that may be unset, an argument that may  *)
(* be None) is a sequence of length 0 (None) or 1 (the value).             *)
(***************************************************************************)
EXTENDS Naturals, Sequences, FiniteSets

VARIABLES env, pc, config, error, last, api_calls,
          current_spreadsheet_id, created, call, threads

vars ==
    <<env, pc, config, error, last, api_calls,
      current_spreadsheet_id, created, call, threads>>

\* The session state of main.py and what is recorded about the tool calls.
session == <<current_spreadsheet_id, created, call, threads>>

\* ------------------------------------------------------------ bounds
\* Largest number of comma-separated entries in MCPGD_FOLDERS.
MaxEntries == 2

\* The same where only the parsing of MCPGD_FOLDERS is explored.
MaxParseEntries == 3

\* Largest number of characters of a slide content.
MaxContentLen == 3

\* ------------------------------------------------------- optional values
None == <<>>

Some(s) == <<s>>

\* Python truthiness of an Optional[str]: None and "" are falsy.
Truthy(opt) == opt # None /\ opt[1] # <<>>

\* os.getenv(name, default): the value when set, the default otherwise.
getenv(opt, default) == IF opt = None THEN default ELSE opt[1]

\* ------------------------------------------------------------ strings
\* The whitespace characters of the alphabet used here (str.strip()).
Whitespace == {" "}

RECURSIVE lstrip(_)
lstrip(s) ==
    IF s # <<>> /\ Head(s) \in Whitespace THEN lstrip(Tail(s)) ELSE s

RECURSIVE rstrip(_)
rstrip(s) ==
    IF s # <<>> /\ s[Len(s)] \in Whitespace
    THEN rstrip(SubSeq(s, 1, Len(s) - 1))
    ELSE s

strip(s) == rstrip(lstrip(s))

\* Index of the first occurrence of character c in s, 0 when absent.
find(s, c) ==
    IF \E i \in 1..Len(s) : s[i] = c
    THEN CHOOSE i \in 1..Len(s) : s[i] = c /\ \A j \in 1..(i - 1) : s[j] # c
    ELSE 0

\* s.split(sep): every piece between separators, empty pieces kept.
RECURSIVE split(_, _)
split(s, sep) ==
    LET i == find(s, sep)
    IN  IF i = 0
        THEN <<s>>
        ELSE <<SubSeq(s, 1, i - 1)>> \o split(SubSeq(s, i + 1, Len(s)), sep)

\* Mutant of split1: the halves around the last sep (rsplit).
split1_last(s, sep) ==
    LET i == CHOOSE k \in 1..Len(s) :
                 s[k] = sep /\ \A j \in (k + 1)..Len(s) : s[j] # sep
    IN  <<SubSeq(s, 1, i - 1), SubSeq(s, i + 1, Len(s))>>

\* s.split(sep, 1) for an s that contains sep: the halves around the first sep.
split1(s, sep) ==
    LET i == find(s, sep)
    IN  <<SubSeq(s, 1, i - 1), SubSeq(s, i + 1, Len(s))>>

\* sep.join(parts)
RECURSIVE join(_, _)
join(parts, sep) ==
    IF parts = <<>> THEN <<>>
    ELSE IF Len(parts) = 1 THEN parts[1]
    ELSE parts[1] \o <<sep>> \o join(Tail(parts), sep)

\* ------------------------------------------------- insertion-ordered dict
\* A Python dict is a sequence of [alias, fid] items with distinct aliases,
\* in insertion order.
keys(d) == {d[i].alias : i \in 1..Len(d)}

\* d[k] for a key k of d.
lookup(d, k) == d[CHOOSE i \in 1..Len(d) : d[i].alias = k].fid

\* Mutant of dict_set: an existing key keeps its first value (setdefault).
dict_set_keeps_first(d, k, v) ==
    IF k \in keys(d) THEN d ELSE Append(d, [alias |-> k, fid |-> v])

\* d[k] = v: an existing key keeps its position, a new key goes last.
dict_set(d, k, v) ==
    IF k \in keys(d)
    THEN [d EXCEPT ![CHOOSE i \in 1..Len(d) : d[i].alias = k].fid = v]
    ELSE Append(d, [alias |-> k, fid |-> v])

\* ------------------------------------------------------ Config.from_env
\* The alias the legacy scheme is normalised to: 'default'.
DefaultAlias == <<"d", "e", "f", "a", "u", "l", "t">>

\* Mutant of parse_items: the loop ends at the first entry without ':'.
RECURSIVE parse_items_stops(_, _)
parse_items_stops(items, folders) ==
    IF items = <<>> THEN folders
    ELSE LET item == strip(Head(items))
         IN  IF find(item, ":") # 0
             THEN LET pair == split1(item, ":")
                  IN  parse_items_stops(
                          Tail(items),
                          dict_set(folders, strip(pair[1]), strip(pair[2])))
             ELSE folders

\* for item in folders_str.split(','): strip it; when it contains ':', split
\* it on the first ':' and store strip(alias) -> strip(fid).
RECURSIVE parse_items(_, _)
parse_items(items, folders) ==
    IF items = <<>> THEN folders
    ELSE LET item == strip(Head(items))
         IN  parse_items(
                 Tail(items),
                 IF find(item, ":") # 0
                 THEN LET pair == split1(item, ":")
                      IN  dict_set(folders, strip(pair[1]), strip(pair[2]))
                 ELSE folders)

\* folders = {}; if folders_str: (the loop above)
parse_folders(folders_str) ==
    IF folders_str = <<>> THEN <<>>
    ELSE parse_items(split(folders_str, ","), <<>>)

\* Mutant of secret_missing: only an unset variable is refused (`is None`).
secret_missing_only_unset(client_secret_path) == client_secret_path = None

\* if not client_secret_path: raise ValueError
secret_missing(client_secret_path) == ~Truthy(client_secret_path)

\* Mutant of legacy_only: a supplied MCPGD_DEFAULT_FOLDER is kept.
legacy_only_keeps_default(folders, default_folder, folder_id) ==
    [folder_id      |-> folder_id,
     folders        |-> <<[alias |-> DefaultAlias, fid |-> folder_id]>>,
     default_folder |-> IF default_folder = <<>>
                        THEN DefaultAlias
                        ELSE default_folder]

\* Branch `if not folders and folder_id`: the legacy id becomes the single
\* folder 'default'.
legacy_only(folders, default_folder, folder_id) ==
    [folder_id      |-> folder_id,
     folders        |-> <<[alias |-> DefaultAlias, fid |-> folder_id]>>,
     default_folder |-> DefaultAlias]

\* Mutant of new_only: an unknown default falls back to the last entry.
new_only_last_entry(folders, default_folder, folder_id) ==
    IF default_folder # <<>> /\ default_folder \in keys(folders)
    THEN [folder_id      |-> lookup(folders, default_folder),
          folders        |-> folders,
          default_folder |-> default_folder]
    ELSE LET last_alias == folders[Len(folders)].alias
         IN  [folder_id      |-> lookup(folders, last_alias),
              folders        |-> folders,
              default_folder |-> IF default_folder = <<>>
                                 THEN last_alias
                                 ELSE default_folder]

\* Mutant of new_only: MCPGD_DEFAULT_FOLDER is never consulted.
new_only_ignores_default(folders, default_folder, folder_id) ==
    LET first_alias == folders[1].alias
    IN  [folder_id      |-> lookup(folders, first_alias),
         folders        |-> folders,
         default_folder |-> IF default_folder = <<>>
                            THEN first_alias
                            ELSE default_folder]

\* Branch `elif folders and not folder_id`: folder_id is backfilled from the
\* default alias when it is set and known, from the first entry otherwise.
new_only(folders, default_folder, folder_id) ==
    IF default_folder # <<>> /\ default_folder \in keys(folders)
    THEN [folder_id      |-> lookup(folders, default_folder),
          folders        |-> folders,
          default_folder |-> default_folder]
    ELSE LET first_alias == folders[1].alias
         IN  [folder_id      |-> lookup(folders, first_alias),
              folders        |-> folders,
              default_folder |-> IF default_folder = <<>>
                                 THEN first_alias
                                 ELSE default_folder]

\* Mutant of normalize: with both schemes supplied, a known default alias
\* overrides the legacy id.
normalize_reconciles(folders, default_folder, folder_id) ==
    IF folders = <<>> /\ folder_id # <<>>
    THEN legacy_only(folders, default_folder, folder_id)
    ELSE IF folders # <<>> /\ folder_id = <<>>
    THEN new_only(folders, default_folder, folder_id)
    ELSE IF default_folder # <<>> /\ default_folder \in keys(folders)
    THEN [folder_id      |-> lookup(folders, default_folder),
          folders        |-> folders,
          default_folder |-> default_folder]
    ELSE [folder_id      |-> folder_id,
          folders        |-> folders,
          default_folder |-> default_folder]

\* The backward-compatibility branches applied to the parsed folders, the
\* MCPGD_DEFAULT_FOLDER value and the MCPGD_FOLDER_ID value; with both
\* schemes supplied, or neither, the three are left as they are.
normalize(folders, default_folder, folder_id) ==
    IF folders = <<>> /\ folder_id # <<>>
    THEN legacy_only(folders, default_folder, folder_id)
    ELSE IF folders # <<>> /\ folder_id = <<>>
    THEN new_only(folders, default_folder, folder_id)
    ELSE [folder_id      |-> folder_id,
          folders        |-> folders,
          default_folder |-> default_folder]

\* Mutant of folders_missing: `folder_id is None`, which os.getenv with a
\* default of '' never yields, so the validation never fires.
folders_missing_never(folder_id, folders) == FALSE

\* if not folder_id and not folders: raise ValueError
folders_missing(folder_id, folders) == folder_id = <<>> /\ folders = <<>>

\* The value of `config` while no Config object exists.
NoConfig ==
    [client_secret_path |-> <<>>, folder_id |-> <<>>,
     folders |-> <<>>, default_folder |-> <<>>]

SecretRequired == "MCPGD_CLIENT_SECRET_PATH environment variable is required"

FoldersRequired ==
    "MCPGD_FOLDERS or MCPGD_FOLDER_ID environment variable is required"

\* Config.from_env over the process environment (after load_dotenv): either
\* a raised ValueError or the Config it returns.  token_path, which no
\* decision reads, is left out.
from_env(e) ==
    LET client_secret_path == e.MCPGD_CLIENT_SECRET_PATH
    IN  IF secret_missing(client_secret_path)
        THEN [ok |-> FALSE, error |-> SecretRequired, config |-> NoConfig]
        ELSE LET n == normalize(parse_folders(getenv(e.MCPGD_FOLDERS, <<>>)),
                                getenv(e.MCPGD_DEFAULT_FOLDER, <<>>),
                                getenv(e.MCPGD_FOLDER_ID, <<>>))
             IN  IF folders_missing(n.folder_id, n.folders)
                 THEN [ok |-> FALSE, error |-> FoldersRequired,
                       config |-> NoConfig]
                 ELSE [ok |-> TRUE, error |-> "",
                       config |->
                           [client_secret_path |-> client_secret_path[1],
                            folder_id          |-> n.folder_id,
                            folders            |-> n.folders,
                            default_folder     |-> n.default_folder]]

\* Mutant of get_folder_id: the alias lookup comes before the emptiness test.
get_folder_id_alias_first(cfg, folder) ==
    IF folder # None /\ folder[1] \in keys(cfg.folders)
    THEN lookup(cfg.folders, folder[1])
    ELSE IF ~Truthy(folder) THEN cfg.folder_id
    ELSE folder[1]

\* Mutant of get_folder_id: an unknown alias falls back to the default id.
get_folder_id_unknown_to_default(cfg, folder) ==
    IF ~Truthy(folder) THEN cfg.folder_id
    ELSE IF folder[1] \in keys(cfg.folders) THEN lookup(cfg.folders, folder[1])
    ELSE cfg.folder_id

\* Mutant of get_folder_id: the alias lookup is missing.
get_folder_id_no_lookup(cfg, folder) ==
    IF ~Truthy(folder) THEN cfg.folder_id ELSE folder[1]

\* Config.get_folder_id(folder: Optional[str] = None)
get_folder_id(cfg, folder) ==
    IF ~Truthy(folder) THEN cfg.folder_id
    ELSE IF folder[1] \in keys(cfg.folders) THEN lookup(cfg.folders, folder[1])
    ELSE folder[1]

\* for alias, fid in self.folders.items(): if fid == folder_id: return alias
RECURSIVE first_alias_of(_, _)
first_alias_of(items, folder_id) ==
    IF items = <<>> THEN <<>>
    ELSE IF Head(items).fid = folder_id THEN Head(items).alias
    ELSE first_alias_of(Tail(items), folder_id)

\* Mutant of get_folder_name: the last matching alias is returned.
RECURSIVE last_alias_of(_, _)
last_alias_of(items, folder_id) ==
    IF items = <<>> THEN <<>>
    ELSE IF items[Len(items)].fid = folder_id THEN items[Len(items)].alias
    ELSE last_alias_of(SubSeq(items, 1, Len(items) - 1), folder_id)

get_folder_name_last(cfg, folder_id) == last_alias_of(cfg.folders, folder_id)

\* Config.get_folder_name(folder_id)
get_folder_name(cfg, folder_id) == first_alias_of(cfg.folders, folder_id)

\* ------------------------------------------------- GoogleDrive.list_files
\* The folder ids the Drive query names: every value of config.folders, or
\* drive.folder_id (a copy of config.folder_id) when folders is empty.
list_query(cfg) ==
    IF cfg.folders # <<>>
    THEN [i \in 1..Len(cfg.folders) |-> cfg.folders[i].fid]
    ELSE <<cfg.folder_id>>

\* Each returned file with a parent gets folder_id and folder_name added.
annotate(cfg, file) ==
    IF file.parents # <<>>
    THEN [id          |-> file.id,
          parents     |-> file.parents,
          folder_id   |-> Some(file.parents[1]),
          folder_name |-> Some(get_folder_name(cfg, file.parents[1]))]
    ELSE [id |-> file.id, parents |-> file.parents,
          folder_id |-> None, folder_name |-> None]

FoldersEmpty == "Folders are empty"

\* What list_files returns for an outcome of the Drive call: [] when the
\* call raises, the one-message list when no file is found, the annotated
\* files otherwise.
list_files(cfg, outcome) ==
    IF outcome.raises THEN <<>>
    ELSE IF outcome.files = <<>> THEN <<[message |-> FoldersEmpty]>>
    ELSE [i \in 1..Len(outcome.files) |-> annotate(cfg, outcome.files[i])]

\* ------------------------------------------------ values tools return
\* What a caller can observe of the Python value a tool call ends with:
\*   kind     "dict", "list", or "raise" when an exception leaves the tool
\*   keys     the keys of a dict
\*   success  the value under 'success': "True", "False", "None", "data"
\*            (a truthy value that is not a bool), or "absent"
\*   message  the value under 'message' (for "raise": str(e)): "text" when
\*            non-empty, "empty" when '', "absent" when there is none
\*   id       the value under 'spreadsheetId' (None: absent or Python None)
\*   folder   the value under 'folder' (None: absent or Python None)
\*   len      the length of a list
Value(kind, ks, success, message, id, folder, len) ==
    [kind |-> kind, keys |-> ks, success |-> success, message |-> message,
     id |-> id, folder |-> folder, len |-> len]

\* The dict literal {}.
EmptyDict == Value("dict", {}, "absent", "absent", None, None, "0")

\* A list of n items ("0", "1").
ListOf(n) == Value("list", {}, "absent", "absent", None, None, n)

\* An exception that leaves the tool; msg is str(e).
Raised(msg) == Value("raise", {}, "absent", msg, None, None, "0")

\* {"success": ..., "message": ..., and the other keys}.
Envelope(success, message, others) ==
    Value("dict",
          {"success"} \cup (IF message = "absent" THEN {} ELSE {"message"})
                      \cup others,
          success, message, None, None, "0")

\* `if result:` on a returned dict or list.
Nonempty(v) ==
    \/ v.kind = "dict" /\ v.keys # {}
    \/ v.kind = "list" /\ v.len # "0"

\* `folder or self.config.default_folder`.
folder_or_default(cfg, folder) ==
    IF Truthy(folder) THEN folder ELSE Some(cfg.default_folder)

\* --------------------------------- GoogleDrive creation (google_drive.py)
\* GoogleDrive.copy_file and rename_file: one Drive call; its result as it
\* is, {} when it raises.  api.o is "raise", "empty" (a falsy result) or "ok".
drive_file_op(op, api) ==
    [ret |-> IF api.o = "ok"
             THEN Value("dict", {"id", "name"}, "absent", "absent",
                        None, None, "0")
             ELSE EmptyDict,
     ops |-> <<op>>,
     target |-> None]

\* Mutant of drive_create_spreadsheet: a failure of the move fails the
\* operation.
drive_create_spreadsheet_move_fatal(cfg, folder, api) ==
    LET target_folder_id == get_folder_id(cfg, folder)
    IN  IF api.o = "raise" \/ api.id = None
        THEN [ret |-> EmptyDict, ops |-> <<"sheets.spreadsheets.create">>,
              target |-> None]
        ELSE IF api.get = "raise"
        THEN [ret |-> EmptyDict,
              ops |-> <<"sheets.spreadsheets.create", "drive.files.get">>,
              target |-> None]
        ELSE [ret |-> IF api.update = "raise" THEN EmptyDict
                      ELSE Value("dict", {"spreadsheetId", "title", "folder"},
                                 "absent", "absent", api.id,
                                 folder_or_default(cfg, folder), "0"),
              ops |-> <<"sheets.spreadsheets.create", "drive.files.get",
                        "drive.files.update">>,
              target |-> Some(target_folder_id)]

\* GoogleDrive.create_spreadsheet: spreadsheets().create(), then files().get()
\* and files().update(addParents=target_folder_id) to move the file; a
\* failure of the move is only logged, any other exception gives {}.
\*   api.o, api.id  the create call: "raise", or "ok" with the id it returned
\*                  (None: the response has no 'spreadsheetId': KeyError)
\*   api.get        "raise", "parents" or "noparents"
\*   api.update     "raise" or "ok"
\* target is the folder id handed to the Drive API, None when files().update()
\* is not reached.
drive_create_spreadsheet(cfg, folder, api) ==
    LET target_folder_id == get_folder_id(cfg, folder)
        moved == IF api.get = "raise"
                 THEN <<"drive.files.get">>
                 ELSE <<"drive.files.get", "drive.files.update">>
    IN  IF api.o = "raise" \/ api.id = None
        THEN [ret |-> EmptyDict, ops |-> <<"sheets.spreadsheets.create">>,
              target |-> None]
        ELSE [ret |-> Value("dict", {"spreadsheetId", "title", "folder"},
                            "absent", "absent", api.id,
                            folder_or_default(cfg, folder), "0"),
              ops |-> <<"sheets.spreadsheets.create">> \o moved,
              target |-> IF api.get = "raise" THEN None
                         ELSE Some(target_folder_id)]

\* Mutant of drive_create_by_copy: the copy always goes to the default folder.
drive_create_by_copy_default(cfg, folder, api) ==
    [ret |-> IF api.o = "ok"
             THEN Value("dict", {"spreadsheetId", "title", "folder"},
                        "absent", "absent", api.id,
                        folder_or_default(cfg, folder), "0")
             ELSE EmptyDict,
     ops |-> <<"drive.files.copy">>,
     target |-> Some(cfg.folder_id)]

\* GoogleDrive.create_spreadsheet_from_template and _from_existing: one
\* files().copy() into [target_folder_id]; {} when it raises or returns a
\* falsy result, otherwise 'spreadsheetId' is result.get('id').
drive_create_by_copy(cfg, folder, api) ==
    LET target_folder_id == get_folder_id(cfg, folder)
    IN  [ret |-> IF api.o = "ok"
                 THEN Value("dict", {"spreadsheetId", "title", "folder"},
                            "absent", "absent", api.id,
                            folder_or_default(cfg, folder), "0")
                 ELSE EmptyDict,
         ops |-> <<"drive.files.copy">>,
         target |-> Some(target_folder_id)]

\* --------------------------------------------- session state (main.py)
\* Mutant of set_current: the id of any non-empty result is stored, also
\* when it is missing or ''.
set_current_unchecked(current, result) ==
    IF Nonempty(result) THEN result.id ELSE current

\* Mutant of set_current: a failed creation forgets the stored id.
set_current_reset_on_failure(current, result) ==
    IF Nonempty(result)
    THEN IF Truthy(result.id) THEN result.id ELSE current
    ELSE None

\* main.py 69-72 (and 91-94, 111-114): `if result:` then
\* `spreadsheet_id = result.get('spreadsheetId') or result.get('id')` and
\* `if spreadsheet_id: current_spreadsheet_id = spreadsheet_id`.  The drive
\* results have no 'id' key, so the second operand of `or` is None.
set_current(current, result) ==
    IF Nonempty(result)
    THEN IF Truthy(result.id) THEN result.id ELSE current
    ELSE current

\* main.py 124-125 and its copies in the other sheet tools:
\* `if spreadsheet_id is None: spreadsheet_id = current_spreadsheet_id`.
resolve(spreadsheet_id, current) ==
    IF spreadsheet_id = None THEN current ELSE spreadsheet_id

\* The sheet tools that carry the lines above.
FallbackSheetTools ==
    {"list_sheets", "duplicate_sheet", "rename_sheet", "get_sheet_data",
     "add_rows", "add_columns", "update_cells", "batch_update_cells",
     "delete_rows", "delete_columns", "create_chart"}

\* All sheet tools: add_sheet (main.py 132-136) hands its argument on as is.
SheetTools == FallbackSheetTools \cup {"add_sheet"}

\* The spreadsheet id a sheet tool hands to its GoogleSheets method.
forwarded(tool, spreadsheet_id, current) ==
    IF tool \in FallbackSheetTools
    THEN resolve(spreadsheet_id, current)
    ELSE spreadsheet_id

\* What a tool without try/except that returns the delegate's value as it is
\* ends with: the delegate's exception, or its value (here {} when falsy).
passthrough(outcome) ==
    CASE outcome.o = "raise"       -> Raised("text")
      [] outcome.o = "raise_empty" -> Raised("empty")
      [] outcome.o \in {"False", "None"} -> EmptyDict
      [] OTHER -> Value("dict", {"data"}, "absent", "absent", None, None, "0")

\* Mutant of sheet_tool: a call without any id is refused before the delegate.
sheet_tool_rejects(tool, spreadsheet_id, current, outcome) ==
    LET id == forwarded(tool, spreadsheet_id, current)
    IN  IF id = None
        THEN [fwd |-> id, ops |-> <<>>, ret |-> Envelope("False", "text", {})]
        ELSE [fwd |-> id, ops |-> <<"sheets." \o tool>>,
              ret |-> passthrough(outcome)]

\* A sheet tool (main.py 120-364): the id is resolved, the GoogleSheets
\* method of the same name is called once with it, whatever it is, and what
\* the method returns or raises is the result.
sheet_tool(tool, spreadsheet_id, current, outcome) ==
    [fwd |-> forwarded(tool, spreadsheet_id, current),
     ops |-> <<"sheets." \o tool>>,
     ret |-> passthrough(outcome)]

\* ------------------------------------ slide and document tools (main.py)
\* The outcome of one call of a GoogleSheets, GoogleSlides or GoogleDocs
\* method: it raises (str(e) non-empty or ''), or returns True, False, None
\* or a non-empty value ("data").
raises(outcome) == outcome.o \in {"raise", "raise_empty"}

truthy(outcome) == outcome.o \in {"True", "data", "ok"}

\* str(e) of the exception a raising outcome stands for.
str_e(outcome) == IF outcome.o = "raise" THEN "text" ELSE "empty"

\* create_presentation (main.py 366-386): slides.create_presentation, and on
\* a truthy id slides.get_slide_dimensions as well; no try/except.
create_presentation(outcome, dimensions) ==
    IF raises(outcome)
    THEN [ret |-> Raised(str_e(outcome)),
          ops |-> <<"slides.create_presentation">>]
    ELSE IF truthy(outcome)
    THEN [ret |-> IF raises(dimensions)
                  THEN Raised(str_e(dimensions))
                  ELSE Envelope("True", "text",
                                {"presentation_id", "dimensions"}),
          ops |-> <<"slides.create_presentation",
                    "slides.get_slide_dimensions">>]
    ELSE [ret |-> Envelope("False", "text", {}),
          ops |-> <<"slides.create_presentation">>]

\* What json.loads makes of the content of a slide, backticks stripped:
\* "invalid" raises JSONDecodeError, "string" is a JSON string literal,
\* "other" is any other JSON value (a number, a list, an object).
SlideContents == {"invalid", "string", "other"}

\* add_slide_to_presentation (main.py 388-426): a content that parses to a
\* non-string replaces `content`, and `content.replace` then raises
\* AttributeError into the outer except, before slides.add_slide is reached.
\* For a result that is not a dict (True), `result.get` raises as well.
add_slide_to_presentation(content, outcome) ==
    IF content = "other"
    THEN [ret |-> Envelope("False", "text", {}), ops |-> <<>>]
    ELSE [ret |-> IF outcome.o = "data"
                  THEN Envelope("True", "text", {"slide_id", "dimensions"})
                  ELSE Envelope("False", "text", {}),
          ops |-> <<"slides.add_slide">>]

\* add_image_to_slide (main.py 428-476): try/except around one call; the
\* message of the except branch has a fixed non-empty prefix.
add_image_to_slide(outcome) ==
    [ret |-> IF ~raises(outcome) /\ truthy(outcome)
             THEN Envelope("True", "text", {"image_id"})
             ELSE Envelope("False", "text", {}),
     ops |-> <<"slides.add_image">>]

\* The tools of the shape `x = delegate(...); if x: return {success: True,
\* ...}; return {success: False, message}` without try/except:
\* get_presentation_details (478-494, no message on success),
\* delete_presentation (496-512), create_document (514-531).
plain_envelope(op, outcome) ==
    [ret |-> IF raises(outcome) THEN Raised(str_e(outcome))
             ELSE IF truthy(outcome)
             THEN CASE op = "slides.get_presentation" ->
                           Envelope("True", "absent", {"presentation"})
                    [] op = "docs.create_document" ->
                           Envelope("True", "text", {"document_id"})
                    [] OTHER -> Envelope("True", "text", {})
             ELSE Envelope("False", "text", {}),
     ops |-> <<op>>]

\* search_slide_elements (main.py 688-715): success True whatever
\* search_elements returns; the except branch answers str(e).
search_slide_elements(outcome) ==
    [ret |-> IF raises(outcome)
             THEN Envelope("False", str_e(outcome), {})
             ELSE Envelope("True", "absent", {"elements"}),
     ops |-> <<"slides.search_elements">>]

\* update_text_style (main.py 717-763): 'success' is the value
\* slides.update_text_style returned, as it is.
update_text_style(outcome) ==
    [ret |-> IF raises(outcome)
             THEN Envelope("False", str_e(outcome), {})
             ELSE Envelope(outcome.o, "text", {}),
     ops |-> <<"slides.update_text_style">>]

\* ------------------------- slide content (add_slide_to_presentation)
\* The newline character and the backslash.
NL == "\n"

BS == "\\"

\* The backtick character.
BT == "backtick"

\* content.strip(backtick) (main.py 397).
RECURSIVE strip_backticks(_)
strip_backticks(s) ==
    IF s # <<>> /\ Head(s) = BT THEN strip_backticks(Tail(s))
    ELSE IF s # <<>> /\ s[Len(s)] = BT
    THEN strip_backticks(SubSeq(s, 1, Len(s) - 1))
    ELSE s

\* The whitespace json.loads skips around a value (of the characters used
\* here, the newline).
RECURSIVE json_skip(_)
json_skip(s) ==
    IF s # <<>> /\ Head(s) = NL THEN json_skip(Tail(s))
    ELSE IF s # <<>> /\ s[Len(s)] = NL
    THEN json_skip(SubSeq(s, 1, Len(s) - 1))
    ELSE s

\* The characters of a JSON string after its opening quote, up to the closing
\* quote, which must end the text: escapes \\ \" \n are decoded, any other
\* escape and a raw newline are errors (json.decoder.scanstring, strict).
RECURSIVE json_string_body(_)
json_string_body(s) ==
    IF s = <<>> THEN [ok |-> FALSE, str |-> <<>>]
    ELSE IF Head(s) = "\"" THEN [ok |-> Tail(s) = <<>>, str |-> <<>>]
    ELSE IF Head(s) = NL THEN [ok |-> FALSE, str |-> <<>>]
    ELSE IF Head(s) = BS
    THEN IF Len(s) >= 2 /\ s[2] \in {BS, "\"", "n"}
         THEN LET rest == json_string_body(Tail(Tail(s)))
              IN  [ok  |-> rest.ok,
                   str |-> <<IF s[2] = "n" THEN NL ELSE s[2]>> \o rest.str]
         ELSE [ok |-> FALSE, str |-> <<>>]
    ELSE LET rest == json_string_body(Tail(s))
         IN  [ok |-> rest.ok, str |-> <<Head(s)>> \o rest.str]

\* json.loads(s) for texts over the characters used here: a string literal,
\* or a number made of digits 1; everything else raises JSONDecodeError.
\*   ok    FALSE when JSONDecodeError is raised
\*   type  "str" or "int"
\*   str   the decoded string (type "str") or the digits (type "int")
json_loads(s) ==
    LET t == json_skip(s)
    IN  IF t # <<>> /\ \A i \in 1..Len(t) : t[i] = "1"
        THEN [ok |-> TRUE, type |-> "int", str |-> t]
        ELSE IF t # <<>> /\ Head(t) = "\""
        THEN LET b == json_string_body(Tail(t))
             IN  [ok |-> b.ok, type |-> "str",
                  str |-> IF b.ok THEN b.str ELSE <<>>]
        ELSE [ok |-> FALSE, type |-> "str", str |-> <<>>]

\* content.replace('\\n', '\n') (main.py 407): every backslash followed by n
\* becomes a newline, scanning from the left.
RECURSIVE replace_escaped_newlines(_)
replace_escaped_newlines(s) ==
    IF s = <<>> THEN <<>>
    ELSE IF Len(s) >= 2 /\ s[1] = BS /\ s[2] = "n"
    THEN <<NL>> \o replace_escaped_newlines(Tail(Tail(s)))
    ELSE <<Head(s)>> \o replace_escaped_newlines(Tail(s))

\* main.py 393-409, from the content argument to the call of slides.add_slide:
\*   kind       what json.loads made of the stripped content (SlideContents)
\*   parsed     the value json.loads returned, when it returned one
\*   delivered  FALSE when `content.replace` raised AttributeError, so that
\*              slides.add_slide was not called
\*   passed     the content handed to slides.add_slide
slide_content(content) ==
    LET stripped == strip_backticks(content)
        parsed   == json_loads(stripped)
    IN  IF ~parsed.ok
        THEN [kind |-> "invalid", parsed |-> parsed, delivered |-> TRUE,
              passed |-> replace_escaped_newlines(stripped)]
        ELSE IF parsed.type = "str"
        THEN [kind |-> "string", parsed |-> parsed, delivered |-> TRUE,
              passed |-> replace_escaped_newlines(parsed.str)]
        ELSE [kind |-> "other", parsed |-> parsed, delivered |-> FALSE,
              passed |-> <<>>]

\* ------------------------------------------------------------- inputs
\* Candidate MCPGD_FOLDERS entries: well-formed, padded with blanks, two
\* aliases of one id, an empty alias, an empty id, and one without ':'.
Entries ==
    { <<"a", ":", "X">>,
      <<" ", "b", " ", ":", " ", "Y", " ">>,
      <<"b", ":", "X">>,
      <<":", "X">>,
      <<"a", ":">>,
      <<"b", "a", "d">> }

\* MCPGD_FOLDERS: unset, empty, or up to MaxEntries entries joined by ','.
FolderStrings ==
    {None, Some(<<>>)} \cup
    { Some(join(es, ",")) :
        es \in UNION { [1..n -> Entries] : n \in 1..MaxEntries } }

FolderIdValues == {None, Some(<<>>), Some(<<"X">>)}

DefaultFolderValues == {None, Some(<<>>), Some(<<"b">>), Some(<<"z">>)}

SecretValues == {None, Some(<<>>), Some(<<"p">>)}

Environments ==
    [MCPGD_CLIENT_SECRET_PATH : SecretValues,
     MCPGD_FOLDERS            : FolderStrings,
     MCPGD_DEFAULT_FOLDER     : DefaultFolderValues,
     MCPGD_FOLDER_ID          : FolderIdValues]

\* Arguments passed to get_folder_id: omitted, empty, aliases and raw ids.
FolderArgs ==
    {None, Some(<<>>), Some(<<"a">>), Some(<<"b">>), Some(<<"X">>)}

\* Arguments passed to get_folder_name.
FolderIds == {<<>>, <<"X">>, <<"Y">>}

\* Outcomes of the Drive files().list() call.
ListOutcomes ==
    {[raises |-> TRUE, files |-> <<>>], [raises |-> FALSE, files |-> <<>>]}
    \cup
    { [raises |-> FALSE, files |-> <<[id |-> "F", parents |-> ps]>>] :
        ps \in {<<>>, <<<<"X">>>>} }

\* The entries above and one, padded with blanks, whose id contains ':'.
ParseEntries ==
    Entries \cup {<<" ", "c", " ", ":", " ", "Y", ":", "X", " ">>}

\* MCPGD_FOLDERS of up to MaxParseEntries entries, with the credential set.
ParseEnvironments ==
    [MCPGD_CLIENT_SECRET_PATH : {Some(<<"p">>)},
     MCPGD_FOLDERS            :
         { Some(join(es, ",")) :
             es \in UNION { [1..n -> ParseEntries] :
                               n \in 1..MaxParseEntries } },
     MCPGD_DEFAULT_FOLDER     : {None, Some(<<"b">>)},
     MCPGD_FOLDER_ID          : {None, Some(<<"X">>)}]

\* The credential set and one folder configured, in the new and the legacy way.
SessionEnvironments ==
    [MCPGD_CLIENT_SECRET_PATH : {Some(<<"p">>)},
     MCPGD_FOLDERS            : {Some(<<"a", ":", "X">>)},
     MCPGD_DEFAULT_FOLDER     : {None},
     MCPGD_FOLDER_ID          : {None}]
    \cup
    [MCPGD_CLIENT_SECRET_PATH : {Some(<<"p">>)},
     MCPGD_FOLDERS            : {None},
     MCPGD_DEFAULT_FOLDER     : {None},
     MCPGD_FOLDER_ID          : {Some(<<"X">>)}]

\* The credential set; no, one or two folders; an unknown, a known or no
\* default alias; with and without the legacy id.
CreateEnvironments ==
    [MCPGD_CLIENT_SECRET_PATH : {Some(<<"p">>)},
     MCPGD_FOLDERS            :
         {None, Some(<<"a", ":", "X">>),
          Some(<<"a", ":", "X", ",", " ", "b", " ", ":", " ", "Y", " ">>)},
     MCPGD_DEFAULT_FOLDER     : {None, Some(<<"b">>), Some(<<"z">>)},
     MCPGD_FOLDER_ID          : {None, Some(<<"X">>)}]

\* Ids the API gives to new spreadsheets.
SpreadsheetIds == {<<"s">>, <<"t">>}

\* The spreadsheet_id argument of a sheet tool: None, '', or an id.
SpreadsheetArgs == {None, Some(<<>>)} \cup {Some(i) : i \in SpreadsheetIds}

\* One outcome of the API calls or of the delegate method behind a tool call.
Outcome(o, id, get, update) ==
    [o |-> o, id |-> id, get |-> get, update |-> update]

\* A GoogleSheets, GoogleSlides or GoogleDocs method.
DelegateOutcomes ==
    { Outcome(o, None, "none", "none") :
        o \in {"raise", "raise_empty", "True", "False", "None", "data"} }

\* files().copy() / files().update() behind copy_file and rename_file.
DriveOutcomes ==
    { Outcome(o, None, "none", "none") : o \in {"raise", "empty", "ok"} }

\* spreadsheets().create(), files().get(), files().update() behind
\* create_spreadsheet.
CreateOutcomes ==
    {Outcome("raise", None, "none", "none"),
     Outcome("ok", None, "none", "none")}
    \cup
    { Outcome("ok", Some(i), "raise", "none") : i \in SpreadsheetIds }
    \cup
    { Outcome("ok", Some(i), g, u) :
        i \in SpreadsheetIds, g \in {"parents", "noparents"},
        u \in {"raise", "ok"} }

\* files().copy() behind the two copying creation tools.
CopyOutcomes ==
    {Outcome("raise", None, "none", "none"),
     Outcome("empty", None, "none", "none"),
     Outcome("ok", None, "none", "none")}
    \cup
    { Outcome("ok", Some(i), "none", "none") : i \in SpreadsheetIds }


\* The characters slide contents are made of.
SlideAlphabet == {BT, BS, NL, "n", "a", "1", "\""}

\* The content argument of add_slide_to_presentation.
SlideStrings == UNION { [1..n -> SlideAlphabet] : n \in 0..MaxContentLen }

\* --------------------------------------------------------- state machine
\* env        the process environment Config.from_env reads
\* pc         "boot" before main.py line 33 has run, then "serving" or
\*            "failed" (the ValueError ended the module load)
\* config     the module-level Config of main.py
\* error      the message of the ValueError that ended start-up, else ""
\* last       the most recent call of a Config or GoogleDrive method and
\*            what it returned
\* api_calls  the Drive files().list() queries issued so far
\* current_spreadsheet_id  the module-level session pointer of main.py
\* created    the id the most recent creation call got from the API, if any
\* call       the most recent tool call:
\*              tool, kind   its name and family
\*              arg          its spreadsheet_id or folder argument
\*              fwd          the spreadsheet id handed to the delegate
\*              target       the folder id handed to the Drive API
\*              outcome      what the API or the delegate did
\*              ops          the API or delegate operations invoked, in order
\*              ret          what the tool call ended with
\*              follows      the id the call just before it created, if any
\* threads    the tool calls in flight, one per worker of the host: how far
\*            each has got and what it holds in its local variables
NoToolCall ==
    [tool |-> "none", kind |-> "none", arg |-> None, fwd |-> None,
     target |-> None, outcome |-> Outcome("none", None, "none", "none"),
     ops |-> <<>>, ret |-> EmptyDict, follows |-> None]

\* The workers a host that dispatches concurrently runs tool calls on.
Threads == {"t1", "t2"}

\* A worker with no call in flight.
\*   step        "idle"; "resolved" after a sheet tool has read the stored id
\*               (main.py 124-129); "created" after a creation tool's drive
\*               call has returned (main.py 110)
\*   tool, arg   the tool in flight and its spreadsheet_id argument
\*   id          the local spreadsheet_id of a sheet tool
\*   result      the local result of a creation tool
\*   overlapped  another call was in flight at some moment of this one
IdleThread ==
    [step |-> "idle", tool |-> "none", arg |-> None, id |-> None,
     result |-> EmptyDict, overlapped |-> FALSE]

NoThreads == [t \in Threads |-> IdleThread]

NoCall == [op |-> "none", arg |-> None, ret |-> <<>>, via |-> None]

\* The state at module load, before main.py line 33, for an environment
\* drawn from envs.
Boot(envs) ==
    /\ env \in envs
    /\ pc = "boot"
    /\ config = NoConfig
    /\ error = ""
    /\ last = NoCall
    /\ api_calls = {}
    /\ current_spreadsheet_id = None
    /\ created = None
    /\ call = NoToolCall
    /\ threads = NoThreads

Init == Boot(Environments)

\* main.py line 33: config = Config.from_env(); a ValueError propagates out
\* of the module, so nothing after it (the tools, mcp.run) ever runs.
Startup ==
    /\ pc = "boot"
    /\ LET r == from_env(env)
       IN  /\ pc' = IF r.ok THEN "serving" ELSE "failed"
           /\ config' = r.config
           /\ error' = r.error
    /\ UNCHANGED <<env, last, api_calls, session>>

\* A call of config.get_folder_id(folder).
GetFolderId(folder) ==
    /\ pc = "serving"
    /\ last' = [op |-> "get_folder_id", arg |-> folder,
                ret |-> get_folder_id(config, folder), via |-> None]
    /\ UNCHANGED <<env, pc, config, error, api_calls, session>>

\* A call of config.get_folder_name(folder_id).
GetFolderName(folder_id) ==
    /\ pc = "serving"
    /\ last' = [op |-> "get_folder_name", arg |-> Some(folder_id),
                ret |-> get_folder_name(config, folder_id), via |-> None]
    /\ UNCHANGED <<env, pc, config, error, api_calls, session>>

\* config.get_folder_name applied to what the preceding get_folder_id call
\* returned; via keeps that call's argument.
GetFolderNameOfResolved ==
    /\ pc = "serving"
    /\ last.op = "get_folder_id"
    /\ last' = [op |-> "get_folder_name", arg |-> Some(last.ret),
                ret |-> get_folder_name(config, last.ret), via |-> last.arg]
    /\ UNCHANGED <<env, pc, config, error, api_calls, session>>

\* The list_files tool: one Drive files().list() call over list_query.
ListFiles(outcome) ==
    /\ pc = "serving"
    /\ api_calls' = api_calls \cup
           {[op |-> "drive.files.list", parents |-> list_query(config)]}
    /\ last' = [op |-> "list_files", arg |-> None,
                ret |-> list_files(config, outcome), via |-> None]
    /\ UNCHANGED <<env, pc, config, error, session>>

Next ==
    \/ Startup
    \/ \E folder \in FolderArgs : GetFolderId(folder)
    \/ \E folder_id \in FolderIds : GetFolderName(folder_id)
    \/ GetFolderNameOfResolved
    \/ \E outcome \in ListOutcomes : ListFiles(outcome)

Spec == Init /\ [][Next]_vars

\* Start-up alone, over the larger set of MCPGD_FOLDERS values.
InitParse == Boot(ParseEnvironments)

NextParse == Startup

SpecParse == InitParse /\ [][NextParse]_vars

\* ------------------------------------------------ tool calls (main.py)
\* The id a creation got from the API, None for anything else.
new_id(kind, outcome) ==
    IF kind = "creation" /\ outcome.o = "ok" /\ Truthy(outcome.id)
    THEN outcome.id
    ELSE None

\* One tool call, from its arguments to what it ends with.
Serve(tool, kind, arg, fwd, target, outcome, ops, ret, current) ==
    /\ pc = "serving"
    /\ call' = [tool |-> tool, kind |-> kind, arg |-> arg, fwd |-> fwd,
                target |-> target, outcome |-> outcome, ops |-> ops,
                ret |-> ret, follows |-> new_id(call.kind, call.outcome)]
    /\ current_spreadsheet_id' = current
    /\ created' = IF new_id(kind, outcome) # None
                  THEN new_id(kind, outcome)
                  ELSE created
    /\ UNCHANGED <<env, pc, config, error, last, api_calls, threads>>

\* list_files (main.py 43-46): what drive.list_files returns, as it is.
ListFilesCall(outcome) ==
    LET files == list_files(config, outcome)
    IN  Serve("list_files", "drive", None, None, None,
              Outcome(IF outcome.raises THEN "raise" ELSE "ok",
                      None, "none", "none"),
              <<"drive.files.list">>,
              ListOf(IF files = <<>> THEN "0" ELSE "1"),
              current_spreadsheet_id)

\* copy_file and rename_file (main.py 48-56).
DriveFileCall(tool, api) ==
    LET r == drive_file_op(IF tool = "copy_file" THEN "drive.files.copy"
                           ELSE "drive.files.update", api)
    IN  Serve(tool, "drive", None, None, None, api, r.ops, r.ret,
              current_spreadsheet_id)

\* create_spreadsheet (main.py 58-78).
CreateSpreadsheet(folder, api) ==
    LET r == drive_create_spreadsheet(config, folder, api)
    IN  Serve("create_spreadsheet", "creation", folder, None, r.target, api,
              r.ops, r.ret, set_current(current_spreadsheet_id, r.ret))

\* create_spreadsheet_from_template and _from_existing (main.py 80-118).
CreateSpreadsheetByCopy(tool, folder, api) ==
    LET r == drive_create_by_copy(config, folder, api)
    IN  Serve(tool, "creation", folder, None, r.target, api,
              r.ops, r.ret, set_current(current_spreadsheet_id, r.ret))

\* A call of one of the sheet tools (main.py 120-364).
SheetCall(tool, spreadsheet_id, outcome) ==
    LET r == sheet_tool(tool, spreadsheet_id, current_spreadsheet_id, outcome)
    IN  Serve(tool, "sheet", spreadsheet_id, r.fwd, None, outcome, r.ops,
              r.ret, current_spreadsheet_id)

CreatePresentation(outcome, dimensions) ==
    LET r == create_presentation(outcome, dimensions)
    IN  Serve("create_presentation", "slides", None, None, None, outcome,
              r.ops, r.ret, current_spreadsheet_id)

AddSlideToPresentation(content, outcome) ==
    LET r == add_slide_to_presentation(content, outcome)
    IN  Serve("add_slide_to_presentation", "slides", None, None, None,
              outcome, r.ops, r.ret, current_spreadsheet_id)

AddImageToSlide(outcome) ==
    LET r == add_image_to_slide(outcome)
    IN  Serve("add_image_to_slide", "slides", None, None, None, outcome,
              r.ops, r.ret, current_spreadsheet_id)

\* get_presentation_details, delete_presentation, create_document.
PlainEnvelopeCall(tool, op, outcome) ==
    LET r == plain_envelope(op, outcome)
    IN  Serve(tool, IF tool = "create_document" THEN "docs" ELSE "slides",
              None, None, None, outcome, r.ops, r.ret,
              current_spreadsheet_id)

SearchSlideElements(outcome) ==
    LET r == search_slide_elements(outcome)
    IN  Serve("search_slide_elements", "slides", None, None, None, outcome,
              r.ops, r.ret, current_spreadsheet_id)

UpdateTextStyle(outcome) ==
    LET r == update_text_style(outcome)
    IN  Serve("update_text_style", "slides", None, None, None, outcome,
              r.ops, r.ret, current_spreadsheet_id)

InitSession == Boot(SessionEnvironments)

NextSession ==
    \/ Startup
    \/ \E outcome \in ListOutcomes : ListFilesCall(outcome)
    \/ \E tool \in {"copy_file", "rename_file"}, api \in DriveOutcomes :
           DriveFileCall(tool, api)
    \/ \E folder \in FolderArgs, api \in CreateOutcomes :
           CreateSpreadsheet(folder, api)
    \/ \E tool \in {"create_spreadsheet_from_template",
                    "create_spreadsheet_from_existing"},
          folder \in FolderArgs, api \in CopyOutcomes :
           CreateSpreadsheetByCopy(tool, folder, api)
    \/ \E tool \in SheetTools, spreadsheet_id \in SpreadsheetArgs,
          outcome \in DelegateOutcomes :
           SheetCall(tool, spreadsheet_id, outcome)
    \/ \E outcome, dimensions \in DelegateOutcomes :
           CreatePresentation(outcome, dimensions)
    \/ \E content \in SlideContents, outcome \in DelegateOutcomes :
           AddSlideToPresentation(content, outcome)
    \/ \E outcome \in DelegateOutcomes : AddImageToSlide(outcome)
    \/ \E outcome \in DelegateOutcomes :
           \/ PlainEnvelopeCall("get_presentation_details",
                                "slides.get_presentation", outcome)
           \/ PlainEnvelopeCall("delete_presentation",
                                "slides.delete_presentation", outcome)
           \/ PlainEnvelopeCall("create_document",
                                "docs.create_document", outcome)
    \/ \E outcome \in DelegateOutcomes : SearchSlideElements(outcome)
    \/ \E outcome \in DelegateOutcomes : UpdateTextStyle(outcome)

\* The serving process: start-up, then any sequence of tool calls.
SpecSession == InitSession /\ [][NextSession]_vars

\* Start-up over more configurations, then the three creation tools.
InitCreate == Boot(CreateEnvironments)

NextCreate ==
    \/ Startup
    \/ \E folder \in FolderArgs, api \in CreateOutcomes :
           CreateSpreadsheet(folder, api)
    \/ \E tool \in {"create_spreadsheet_from_template",
                    "create_spreadsheet_from_existing"},
          folder \in FolderArgs, api \in CopyOutcomes :
           CreateSpreadsheetByCopy(tool, folder, api)

SpecCreate == InitCreate /\ [][NextCreate]_vars

\* add_slide_to_presentation (main.py 388-426) on a content given character
\* by character; `call` also keeps the content, what json.loads made of it
\* and what slides.add_slide received.  The function reads no module state,
\* so the first call after start-up stands for every call.
AddSlideContent(content, outcome) ==
    LET t == slide_content(content)
        r == add_slide_to_presentation(t.kind, outcome)
    IN  /\ pc = "serving"
        /\ call = NoToolCall
        /\ call' = [tool |-> "add_slide_to_presentation", kind |-> "slides",
                    arg |-> None, fwd |-> None, target |-> None,
                    outcome |-> outcome, ops |-> r.ops, ret |-> r.ret,
                    follows |-> None, content |-> content,
                    parsed |-> t.parsed, delivered |-> t.delivered,
                    passed |-> t.passed]
        /\ UNCHANGED <<env, pc, config, error, last, api_calls,
                       current_spreadsheet_id, created, threads>>

\* One configured process serving add_slide_to_presentation calls.
InitSlide ==
    Boot({e \in SessionEnvironments : e.MCPGD_FOLDERS # None})

NextSlide ==
    \/ Startup
    \/ \E content \in SlideStrings, outcome \in DelegateOutcomes :
           AddSlideContent(content, outcome)

SpecSlide == InitSlide /\ [][NextSlide]_vars

\* -------------------------------------- tool calls dispatched concurrently
\* The workers when worker t starts a call: t and every worker with a call
\* in flight have now overlapped with another call.
started(t, mine) ==
    LET busy == \E u \in Threads \ {t} : threads[u].step # "idle"
    IN  [u \in Threads |->
            IF u = t THEN [mine EXCEPT !.overlapped = busy]
            ELSE IF threads[u].step # "idle"
            THEN [threads[u] EXCEPT !.overlapped = TRUE]
            ELSE threads[u]]

\* A sheet tool up to its delegate call (main.py 124-129): the argument, or
\* the stored id read now, becomes the local spreadsheet_id.
SheetRead(t, tool, spreadsheet_id) ==
    /\ pc = "serving"
    /\ threads[t].step = "idle"
    /\ threads' = started(t,
           [step |-> "resolved", tool |-> tool, arg |-> spreadsheet_id,
            id |-> forwarded(tool, spreadsheet_id, current_spreadsheet_id),
            result |-> EmptyDict, overlapped |-> FALSE])
    /\ UNCHANGED <<env, pc, config, error, last, api_calls,
                   current_spreadsheet_id, created, call>>

\* The delegate call of the sheet tool (main.py 130) and its return; `call`
\* also keeps the stored id at this moment (at) and whether the call
\* overlapped with another one.
SheetInvoke(t, outcome) ==
    /\ threads[t].step = "resolved"
    /\ call' = [tool |-> threads[t].tool, kind |-> "sheet",
                arg |-> threads[t].arg, fwd |-> threads[t].id,
                target |-> None, outcome |-> outcome,
                ops |-> <<"sheets." \o threads[t].tool>>,
                ret |-> passthrough(outcome), follows |-> None,
                at |-> current_spreadsheet_id,
                overlapped |-> threads[t].overlapped]
    /\ threads' = [threads EXCEPT ![t] = IdleThread]
    /\ UNCHANGED <<env, pc, config, error, last, api_calls,
                   current_spreadsheet_id, created>>

\* create_spreadsheet_from_existing up to the return of its drive call
\* (main.py 110).
CreateInvoke(t, api) ==
    LET r == drive_create_by_copy(config, None, api)
    IN  /\ pc = "serving"
        /\ threads[t].step = "idle"
        /\ threads' = started(t,
               [step |-> "created",
                tool |-> "create_spreadsheet_from_existing", arg |-> None,
                id |-> None, result |-> r.ret, overlapped |-> FALSE])
        /\ created' = IF new_id("creation", api) # None
                      THEN new_id("creation", api)
                      ELSE created
        /\ UNCHANGED <<env, pc, config, error, last, api_calls,
                       current_spreadsheet_id, call>>

\* The rest of the creation tool (main.py 111-118): the id of the result is
\* stored and the result returned.
CreateStore(t) ==
    /\ threads[t].step = "created"
    /\ current_spreadsheet_id' =
           set_current(current_spreadsheet_id, threads[t].result)
    /\ threads' = [threads EXCEPT ![t] = IdleThread]
    /\ UNCHANGED <<env, pc, config, error, last, api_calls, created, call>>

InitRace ==
    Boot({e \in SessionEnvironments : e.MCPGD_FOLDERS # None})

NextRace ==
    \/ Startup
    \/ \E t \in Threads, tool \in {"list_sheets", "add_sheet"},
          spreadsheet_id \in SpreadsheetArgs :
           SheetRead(t, tool, spreadsheet_id)
    \/ \E t \in Threads, outcome \in {Outcome("data", None, "none", "none")} :
           SheetInvoke(t, outcome)
    \/ \E t \in Threads, api \in CopyOutcomes : CreateInvoke(t, api)
    \/ \E t \in Threads : CreateStore(t)

\* A host that runs up to two tool calls at a time, each in separate steps.
SpecRace == InitRace /\ [][NextRace]_vars

\* ================================================================ claims
\* What Config.from_env reads from the environment.
SecretSet == Truthy(env.MCPGD_CLIENT_SECRET_PATH)

EnvFolders == getenv(env.MCPGD_FOLDERS, <<>>)

EnvDefault == getenv(env.MCPGD_DEFAULT_FOLDER, <<>>)

EnvFolderId == getenv(env.MCPGD_FOLDER_ID, <<>>)

\* No comma-separated entry of MCPGD_FOLDERS contains ':' (unset, empty, or
\* malformed entries only): the string holds no ':' at all.
NoParsedEntry == \A i \in 1..Len(EnvFolders) : EnvFolders[i] # ":"

\* The mapping MCPGD_FOLDERS parses to.
ParsedFolders == parse_folders(EnvFolders)

\* The positions of d whose id is fid.
positions_of(d, fid) == {i \in 1..Len(d) : d[i].fid = fid}

\* The least element of a non-empty set of positions.
least(S) == CHOOSE i \in S : \A j \in S : i <= j

\* C1: legacy-only environment (credential set, MCPGD_FOLDER_ID non-empty, no
\* parsed MCPGD_FOLDERS entry): from_env returns folders = {"default": id},
\* default_folder = "default", folder_id = id, whatever MCPGD_DEFAULT_FOLDER.
C1_LegacyOnly ==
    (pc # "boot" /\ SecretSet /\ EnvFolderId # <<>> /\ NoParsedEntry) =>
        /\ pc = "serving"
        /\ config.folders = <<[alias |-> DefaultAlias, fid |-> EnvFolderId]>>
        /\ config.default_folder = DefaultAlias
        /\ config.folder_id = EnvFolderId

\* A legacy-only start-up with malformed MCPGD_FOLDERS entries and another
\* MCPGD_DEFAULT_FOLDER supplied.
C1_Witness ==
    /\ pc = "serving"
    /\ EnvFolderId = <<"X">>
    /\ NoParsedEntry /\ EnvFolders # <<>>
    /\ EnvDefault = <<"b">>
    /\ config.default_folder = DefaultAlias

\* C2: new-only environment whose MCPGD_DEFAULT_FOLDER is empty or unknown:
\* folder_id is the id of the first entry of the mapping; default_folder
\* becomes the first alias when it was empty and is kept when it was not.
C2_NewOnlyFirstEntry ==
    (/\ pc # "boot" /\ SecretSet
     /\ EnvFolderId = <<>> /\ ParsedFolders # <<>>
     /\ (EnvDefault = <<>> \/ EnvDefault \notin keys(ParsedFolders))) =>
        /\ pc = "serving"
        /\ config.folder_id = ParsedFolders[1].fid
        /\ config.default_folder =
               IF EnvDefault = <<>> THEN ParsedFolders[1].alias ELSE EnvDefault

\* A new-only start-up with no default and two entries of different ids.
C2_Witness ==
    /\ pc = "serving"
    /\ EnvFolderId = <<>> /\ EnvDefault = <<>>
    /\ Len(ParsedFolders) >= 2
    /\ ParsedFolders[1].fid # ParsedFolders[2].fid
    /\ ParsedFolders[1].alias # <<>>
    /\ config.folder_id = ParsedFolders[1].fid
    /\ config.default_folder = ParsedFolders[1].alias

\* C3 as stated: new-only environment whose MCPGD_DEFAULT_FOLDER value is a key
\* of the mapping: folder_id = folders[MCPGD_DEFAULT_FOLDER] and default_folder
\* stays equal to MCPGD_DEFAULT_FOLDER.
C3_AsStated ==
    (/\ pc # "boot" /\ SecretSet
     /\ EnvFolderId = <<>> /\ ParsedFolders # <<>>
     /\ env.MCPGD_DEFAULT_FOLDER # None
     /\ env.MCPGD_DEFAULT_FOLDER[1] \in keys(ParsedFolders)) =>
        /\ pc = "serving"
        /\ config.folder_id = lookup(ParsedFolders, EnvDefault)
        /\ config.default_folder = EnvDefault

\* C3 amended: the same for a non-empty MCPGD_DEFAULT_FOLDER that is a key of
\* the mapping, at whatever position.
C3_NewOnlyKnownDefault ==
    (/\ pc # "boot" /\ SecretSet
     /\ EnvFolderId = <<>> /\ ParsedFolders # <<>>
     /\ EnvDefault # <<>> /\ EnvDefault \in keys(ParsedFolders)) =>
        /\ pc = "serving"
        /\ config.folder_id = lookup(ParsedFolders, EnvDefault)
        /\ config.default_folder = EnvDefault

\* A new-only start-up whose default alias is not the first entry and maps to
\* another id than the first entry does.
C3_Witness ==
    /\ pc = "serving"
    /\ EnvFolderId = <<>> /\ EnvDefault = <<"b">>
    /\ Len(ParsedFolders) >= 2
    /\ <<"b">> \in keys(ParsedFolders)
    /\ ParsedFolders[1].alias # <<"b">>
    /\ ParsedFolders[1].fid # lookup(ParsedFolders, <<"b">>)
    /\ config.folder_id = lookup(ParsedFolders, <<"b">>)

\* C4: with MCPGD_FOLDER_ID unset/empty and no parsed MCPGD_FOLDERS entry,
\* from_env raises and returns no Config; every Config it returns has a
\* non-empty folder_id or a non-empty folders mapping.
C4_NoFolderConfigFails ==
    /\ (pc # "boot" /\ EnvFolderId = <<>> /\ NoParsedEntry) =>
           (pc = "failed" /\ config = NoConfig /\ error # "")
    /\ pc = "serving" => (config.folder_id # <<>> \/ config.folders # <<>>)

\* A failed start-up with the credential set and only malformed entries.
C4_Witness ==
    /\ pc = "failed"
    /\ SecretSet
    /\ env.MCPGD_FOLDER_ID = Some(<<>>)
    /\ EnvFolders # <<>> /\ NoParsedEntry
    /\ error = FoldersRequired

\* C5: with MCPGD_CLIENT_SECRET_PATH absent or empty from_env raises, whatever
\* the folder variables hold; a failed start-up stays failed, and no tool
\* call is ever dispatched to the Workspace API.
C5_NoSecretNoService ==
    /\ [](/\ (pc # "boot" /\ ~SecretSet) =>
                 (pc = "failed" /\ error = SecretRequired /\ config = NoConfig)
          /\ pc = "failed" => (api_calls = {} /\ last = NoCall))
    /\ [][pc = "failed" => (pc' = "failed" /\ api_calls' = {})]_vars

\* A start-up that failed on an empty credential path although both folder
\* schemes were supplied.
C5_Witness ==
    /\ pc = "failed"
    /\ env.MCPGD_CLIENT_SECRET_PATH = Some(<<>>)
    /\ EnvFolderId # <<>> /\ ParsedFolders # <<>>
    /\ error = SecretRequired

\* C6: with MCPGD_FOLDER_ID and a non-empty parsed MCPGD_FOLDERS both supplied,
\* from_env reconciles nothing: folder_id, folders and default_folder are the
\* supplied values, and get_folder_id() returns the legacy id.
C6_BothSchemesAsGiven ==
    (/\ pc # "boot" /\ SecretSet
     /\ EnvFolderId # <<>> /\ ParsedFolders # <<>>) =>
        /\ pc = "serving"
        /\ config.folder_id = EnvFolderId
        /\ config.folders = ParsedFolders
        /\ config.default_folder = EnvDefault
        /\ (last.op = "get_folder_id" /\ last.arg = None) =>
               last.ret = EnvFolderId

\* Both schemes supplied, the default alias maps to another id than the
\* legacy one, and get_folder_id() has returned the legacy id.
C6_Witness ==
    /\ pc = "serving"
    /\ EnvFolderId = <<"X">>
    /\ EnvDefault = <<"b">>
    /\ <<"b">> \in keys(config.folders)
    /\ lookup(config.folders, <<"b">>) = <<"Y">>
    /\ last.op = "get_folder_id" /\ last.arg = None
    /\ last.ret = <<"X">>

\* C7: for every returned Config, get_folder_id with an empty string or with
\* no argument returns folder_id, also when "" is a key of folders.
C7_EmptyArgIsDefault ==
    (pc = "serving" /\ last.op = "get_folder_id" /\ ~Truthy(last.arg)) =>
        last.ret = config.folder_id

\* get_folder_id("") has returned folder_id although "" is an alias that maps
\* to another id.
C7_Witness ==
    /\ pc = "serving"
    /\ last.op = "get_folder_id" /\ last.arg = Some(<<>>)
    /\ <<>> \in keys(config.folders)
    /\ lookup(config.folders, <<>>) # config.folder_id
    /\ last.ret = config.folder_id

\* C8 as stated: for every input string that is not a key of folders,
\* get_folder_id returns the input.
C8_AsStated ==
    (/\ pc = "serving" /\ last.op = "get_folder_id"
     /\ last.arg # None /\ last.arg[1] \notin keys(config.folders)) =>
        last.ret = last.arg[1]

\* C8 amended: for every non-empty input string that is not a key of folders,
\* get_folder_id returns the input.
C8_RawIdIdentity ==
    (/\ pc = "serving" /\ last.op = "get_folder_id"
     /\ Truthy(last.arg) /\ last.arg[1] \notin keys(config.folders)) =>
        last.ret = last.arg[1]

\* get_folder_id has returned a raw id unchanged, the id differing from the
\* default folder id.
C8_Witness ==
    /\ pc = "serving"
    /\ last.op = "get_folder_id" /\ last.arg = Some(<<"X">>)
    /\ config.folder_id # <<"X">>
    /\ last.ret = <<"X">>

\* The get_folder_name call applied to the result of get_folder_id(a), for an
\* alias a of folders whose id no other alias maps to.
RoundTripOf(a) ==
    /\ pc = "serving"
    /\ last.op = "get_folder_name" /\ last.via = Some(a)
    /\ a \in keys(config.folders)
    /\ Cardinality(positions_of(config.folders,
                                lookup(config.folders, a))) = 1

\* C9 as stated: for every alias a of folders whose id no other alias maps to,
\* the empty alias included, get_folder_name(get_folder_id(a)) = a.
C9_AsStated ==
    \A a \in keys(config.folders) : RoundTripOf(a) => last.ret = a

\* C9 amended: the same for every non-empty alias.
C9_AliasRoundTrip ==
    \A a \in keys(config.folders) \ {<<>>} : RoundTripOf(a) => last.ret = a

\* The round trip has returned alias b, which is not the first alias.
C9_Witness ==
    /\ RoundTripOf(<<"b">>)
    /\ Len(config.folders) >= 2
    /\ config.folders[1].alias # <<"b">>
    /\ last.ret = <<"b">>

\* What get_folder_name is to return: the alias at the first position whose
\* id is the argument, "" when there is none.
FirstAliasFor(fid) ==
    IF positions_of(config.folders, fid) = {} THEN <<>>
    ELSE config.folders[least(positions_of(config.folders, fid))].alias

\* C10 as stated: get_folder_name returns the first alias, in insertion order,
\* whose id is the argument, and returns "" if and only if no alias maps to
\* the argument.
C10_AsStated ==
    (pc = "serving" /\ last.op = "get_folder_name") =>
        /\ last.ret = FirstAliasFor(last.arg[1])
        /\ last.ret = <<>> <=> positions_of(config.folders, last.arg[1]) = {}

\* C10 amended: get_folder_name returns the first alias, in insertion order,
\* whose id is the argument, and "" if no alias maps to the argument; when it
\* returns "", either no alias maps to the argument or the first one that
\* does is the empty alias.
C10_FirstAliasOrEmpty ==
    (pc = "serving" /\ last.op = "get_folder_name") =>
        /\ last.ret = FirstAliasFor(last.arg[1])
        /\ positions_of(config.folders, last.arg[1]) = {} => last.ret = <<>>
        /\ last.ret = <<>> =>
               \/ positions_of(config.folders, last.arg[1]) = {}
               \/ FirstAliasFor(last.arg[1]) = <<>>

\* get_folder_name has returned the first of two aliases of one id.
C10_Witness ==
    /\ pc = "serving"
    /\ last.op = "get_folder_name" /\ last.arg = Some(<<"X">>)
    /\ Cardinality(positions_of(config.folders, <<"X">>)) = 2
    /\ last.ret = config.folders[least(positions_of(config.folders,
                                                    <<"X">>))].alias
    /\ last.ret # <<>>

\* The comma-separated entries of MCPGD_FOLDERS.
EnvEntries == IF EnvFolders = <<>> THEN <<>> ELSE split(EnvFolders, ",")

HasColon(entry) == \E i \in 1..Len(entry) : entry[i] = ":"

\* The alias and id an entry with ':' stands for.
PairOf(entry) ==
    LET i == least({j \in 1..Len(entry) : entry[j] = ":"})
    IN  [alias |-> strip(SubSeq(entry, 1, i - 1)),
         fid   |-> strip(SubSeq(entry, i + 1, Len(entry)))]

\* The entries that contain ':', as alias/id pairs, in their original order.
RECURSIVE pairs_of(_)
pairs_of(entries) ==
    IF entries = <<>> THEN <<>>
    ELSE IF HasColon(Head(entries))
    THEN <<PairOf(Head(entries))>> \o pairs_of(Tail(entries))
    ELSE pairs_of(Tail(entries))

EnvPairs == pairs_of(EnvEntries)

\* The positions of pairs that hold alias a.
occurrences(pairs, a) == {i \in 1..Len(pairs) : pairs[i].alias = a}

greatest(S) == CHOOSE i \in S : \A j \in S : j <= i

\* One item per alias of pairs, in the order of the first occurrences, each
\* with the id of the last occurrence of its alias.
RECURSIVE first_occurrences(_, _, _)
first_occurrences(pairs, all, seen) ==
    IF pairs = <<>> THEN <<>>
    ELSE IF Head(pairs).alias \in seen
    THEN first_occurrences(Tail(pairs), all, seen)
    ELSE <<[alias |-> Head(pairs).alias,
            fid   |-> all[greatest(occurrences(all, Head(pairs).alias))].fid]>>
         \o first_occurrences(Tail(pairs), all,
                              seen \cup {Head(pairs).alias})

\* C11 as stated: a malformed entry never makes from_env raise, and the
\* mapping holds exactly the entries that contain ':', in their original order.
C11_AsStated ==
    (pc # "boot" /\ SecretSet) =>
        /\ pc = "failed" => (EnvPairs = <<>> /\ EnvFolderId = <<>>)
        /\ EnvPairs # <<>> => (pc = "serving" /\ config.folders = EnvPairs)

\* C11 amended: a malformed entry never makes from_env raise and is dropped;
\* the mapping holds one item per alias of the entries that contain ':', in
\* the order of their first occurrences (exactly those entries, in their
\* original order, when no alias is repeated).
C11_MalformedDropped ==
    (pc # "boot" /\ SecretSet) =>
        /\ pc = "failed" => (EnvPairs = <<>> /\ EnvFolderId = <<>>)
        /\ EnvPairs # <<>> =>
               /\ pc = "serving"
               /\ config.folders = first_occurrences(EnvPairs, EnvPairs, {})
               /\ Cardinality({EnvPairs[i].alias : i \in 1..Len(EnvPairs)})
                      = Len(EnvPairs) => config.folders = EnvPairs

\* Three entries, the middle one malformed, parsed to the two others in order.
C11_Witness ==
    /\ pc = "serving"
    /\ Len(EnvEntries) = 3
    /\ HasColon(EnvEntries[1]) /\ ~HasColon(EnvEntries[2])
    /\ HasColon(EnvEntries[3])
    /\ config.folders = <<[alias |-> <<"a">>, fid |-> <<"X">>],
                          [alias |-> <<"b">>, fid |-> <<"Y">>]>>

\* C12: an alias repeated in MCPGD_FOLDERS is in the mapping once, with the id
\* of its last occurrence, at the position of its first occurrence; in the
\* new-only case without a default, folder_id is then the last id given to the
\* first alias and default_folder is that alias.
C12_DuplicateAlias ==
    (pc = "serving" /\ EnvPairs # <<>>) =>
        /\ \A a \in {EnvPairs[i].alias : i \in 1..Len(EnvPairs)} :
               /\ Cardinality(occurrences(config.folders, a)) = 1
               /\ lookup(config.folders, a) =
                      EnvPairs[greatest(occurrences(EnvPairs, a))].fid
        /\ \A i, j \in 1..Len(config.folders) :
               i < j =>
                   least(occurrences(EnvPairs, config.folders[i].alias)) <
                   least(occurrences(EnvPairs, config.folders[j].alias))
        /\ (EnvFolderId = <<>> /\ EnvDefault = <<>>) =>
               /\ config.default_folder = EnvPairs[1].alias
               /\ config.folder_id =
                      EnvPairs[greatest(occurrences(EnvPairs,
                                                    EnvPairs[1].alias))].fid

\* "b:X,a:X, b : Y " with nothing else set: b stays first and maps to Y, which
\* is also the default folder id.
C12_Witness ==
    /\ pc = "serving"
    /\ EnvFolderId = <<>> /\ EnvDefault = <<>>
    /\ Len(EnvPairs) = 3
    /\ EnvPairs[1].alias = EnvPairs[3].alias
    /\ EnvPairs[1].alias # EnvPairs[2].alias
    /\ EnvPairs[1].fid # EnvPairs[3].fid
    /\ Len(config.folders) = 2
    /\ config.folders[1] = EnvPairs[3]
    /\ config.folder_id = EnvPairs[3].fid
    /\ config.default_folder = EnvPairs[1].alias

\* A tool has been called.
Called == pc = "serving" /\ call.tool # "none"

\* The stored id is the id of the most recent creation that got one.
StoredIsLastCreated == current_spreadsheet_id = created

\* C13 as stated: the stored id is the id of the most recent successful
\* creation (unset if there is none), and a sheet tool called without an id
\* right after a creation that returned S hands S to its delegate.
C13_AsStated ==
    /\ StoredIsLastCreated
    /\ (Called /\ call.kind = "sheet" /\ call.arg = None
            /\ call.follows # None)
           => call.fwd = call.follows

\* C14 as stated: every sheet tool called without a spreadsheet id hands the
\* stored id to its delegate.
C14_AsStated ==
    (Called /\ call.kind = "sheet" /\ call.arg = None)
        => call.fwd = current_spreadsheet_id

\* C15 as stated: a sheet tool with the id fallback hands on a non-empty
\* argument as it is, and the stored id when the argument is '' or None.
C15_AsStated ==
    (Called /\ call.tool \in FallbackSheetTools)
        => call.fwd = IF Truthy(call.arg) THEN call.arg
                      ELSE current_spreadsheet_id

\* C16: a step changes the stored id only when it is a creation call whose
\* delegate returned a non-empty result with a non-empty id, and then to that
\* id; failed creations, creations without id and all other tools keep it.
C16_OnlyCreationSets ==
    [][current_spreadsheet_id' # current_spreadsheet_id =>
           /\ call'.kind = "creation"
           /\ Nonempty(call'.ret)
           /\ Truthy(call'.ret.id)
           /\ current_spreadsheet_id' = call'.ret.id]_vars

\* A failed creation, after an earlier one succeeded: the id is still stored.
C16_Witness ==
    /\ Called
    /\ call.kind = "creation"
    /\ ~Nonempty(call.ret)
    /\ call.outcome.o = "raise"
    /\ Truthy(current_spreadsheet_id)

\* C17: the stored id is unset at start-up, is never '' and, once set, is
\* only ever replaced by another non-empty id.
C17_NeverCleared ==
    /\ [](pc = "boot" => current_spreadsheet_id = None)
    /\ [](current_spreadsheet_id = None \/ Truthy(current_spreadsheet_id))
    /\ [][Truthy(current_spreadsheet_id) =>
              Truthy(current_spreadsheet_id')]_vars

\* A copy that came back without an id, after an id was stored: still stored.
C17_Witness ==
    /\ Called
    /\ call.kind = "creation"
    /\ Nonempty(call.ret)
    /\ call.ret.id = None
    /\ Truthy(current_spreadsheet_id)

\* The API call or delegate method behind the last tool call raised or
\* returned a falsy value.
DelegateFailed ==
    call.outcome.o \in {"raise", "raise_empty", "False", "None", "empty"}

\* It returned, with a truthy value (for create_spreadsheet: with an id), and
\* so did the second operation of create_presentation.
DelegateSucceeded ==
    /\ call.outcome.o \in {"ok", "True", "data"}
    /\ call.tool = "create_spreadsheet" => call.outcome.id # None
    /\ call.ret.kind # "raise"

\* C18 as stated: when the delegate raises or returns a falsy value the tool
\* call ends with {success: False, message: non-empty} and nothing is raised.
C18_AsStated ==
    (Called /\ DelegateFailed) =>
        /\ call.ret.kind = "dict"
        /\ call.ret.success = "False"
        /\ call.ret.message = "text"

\* C19 as stated: when the delegate succeeds the tool call ends with an
\* envelope holding success = True and a message, never with the delegate's
\* own value or a list.
C19_AsStated ==
    (Called /\ DelegateSucceeded) =>
        /\ call.ret.kind = "dict"
        /\ call.ret.success = "True"
        /\ "message" \in call.ret.keys

\* C20 as stated: a tool call invokes exactly one API or delegate operation.
C20_AsStated == Called => Len(call.ops) = 1

\* An add_slide_to_presentation call has been made.
SlideCalled == pc = "serving" /\ call.tool = "add_slide_to_presentation"

\* C21 as stated: whenever the content, backticks stripped, parses as JSON,
\* slides.add_slide is called with the parsed value, whatever its JSON type.
C21_AsStated ==
    (SlideCalled /\ call.parsed.ok) =>
        /\ call.delivered
        /\ Len(call.ops) = 1
        /\ call.parsed.type = "str"
        /\ call.passed = call.parsed.str

\* The text contains a backslash followed by n.
HasEscapedNewline(s) ==
    \E i \in 1..(Len(s) - 1) : s[i] = BS /\ s[i + 1] = "n"

\* C22 as stated: a content that does not parse as JSON reaches
\* slides.add_slide as the caller's text with each escaped newline replaced
\* and nothing else changed; without escaped newline it is unchanged, and the
\* transform applied to its own result changes nothing.
C22_AsStated ==
    (SlideCalled /\ ~call.parsed.ok) =>
        /\ call.delivered
        /\ call.passed = replace_escaped_newlines(call.content)
        /\ ~HasEscapedNewline(call.content) =>
               /\ call.passed = call.content
               /\ slide_content(call.passed).delivered
               /\ slide_content(call.passed).passed = call.passed

\* C23: a sheet tool called without an id while none is stored is not
\* refused: its delegate is invoked once, with the unset id, the delegate's
\* outcome is the result, and the stored id stays unset.
C23_MissingIdProceeds ==
    [][(pc = "serving" /\ call'.kind = "sheet" /\ call'.arg = None
            /\ current_spreadsheet_id = None) =>
           /\ Len(call'.ops) = 1
           /\ ~Truthy(call'.fwd)
           /\ call'.ret = passthrough(call'.outcome)
           /\ current_spreadsheet_id' = None
           /\ created' = created]_vars

\* list_sheets() before any creation: the delegate got None and answered.
C23_Witness ==
    /\ Called
    /\ call.tool = "list_sheets"
    /\ call.arg = None
    /\ current_spreadsheet_id = None
    /\ call.fwd = None
    /\ call.ops = <<"sheets.list_sheets">>
    /\ call.outcome.o = "data"

\* A creation tool has been called.
CreationCalled == Called /\ call.kind = "creation"

\* The call reached the Drive request that names the folder: the copy, or
\* the files().update() of create_spreadsheet.
FolderHanded ==
    \/ call.tool # "create_spreadsheet"
    \/ /\ call.outcome.o = "ok"
       /\ call.outcome.id # None
       /\ call.outcome.get # "raise"

\* C24: the folder id a creation hands to the Drive API is the default
\* folder_id when the folder argument is omitted or empty, the mapped id when
\* it is a key of folders, and the argument itself otherwise.
C24_TargetIsResolvedFolder ==
    CreationCalled =>
        /\ FolderHanded <=> call.target # None
        /\ FolderHanded =>
               call.target =
                   Some(IF ~Truthy(call.arg) THEN config.folder_id
                        ELSE IF call.arg[1] \in keys(config.folders)
                        THEN lookup(config.folders, call.arg[1])
                        ELSE call.arg[1])

\* A copy into alias b, which is not the default folder, went to Y.
C24_Witness ==
    /\ CreationCalled
    /\ call.tool = "create_spreadsheet_from_template"
    /\ call.arg = Some(<<"b">>)
    /\ config.folder_id = <<"X">>
    /\ call.target = Some(<<"Y">>)

\* C27: once spreadsheets().create() has returned an id, a failure of
\* files().get() or files().update() does not fail create_spreadsheet: the
\* result carries the id, the tool returns it and the id is stored.
C27_MoveFailureKeepsResult ==
    (Called /\ call.tool = "create_spreadsheet"
        /\ call.outcome.o = "ok" /\ Truthy(call.outcome.id)
        /\ (call.outcome.get = "raise" \/ call.outcome.update = "raise")) =>
        /\ call.ret.kind = "dict"
        /\ "spreadsheetId" \in call.ret.keys
        /\ call.ret.id = call.outcome.id
        /\ current_spreadsheet_id = call.outcome.id

\* files().update() raised after an earlier creation had stored t: s is
\* returned and stored all the same.
C27_Witness ==
    /\ Called
    /\ call.tool = "create_spreadsheet"
    /\ call.outcome.update = "raise"
    /\ call.follows = Some(<<"t">>)
    /\ call.ret.id = Some(<<"s">>)
    /\ current_spreadsheet_id = Some(<<"s">>)

\* C28 as stated: the 'folder' of a successful creation result resolves to
\* the folder id that was handed to the Drive API.
C28_AsStated ==
    (CreationCalled /\ Nonempty(call.ret) /\ FolderHanded) =>
        Some(get_folder_id(config, call.ret.folder)) = call.target

\* C26: every entry of MCPGD_FOLDERS that contains ':' is cut at its first
\* ':' only, both halves are trimmed, and the pair is stored also when the
\* alias or the id is empty: its alias is a key, and the key maps to its id
\* unless a later entry has the same alias.
C26_FirstColonTrimmed ==
    (pc = "serving" /\ EnvPairs # <<>>) =>
        \A i \in 1..Len(EnvPairs) :
            /\ EnvPairs[i].alias \in keys(config.folders)
            /\ i = greatest(occurrences(EnvPairs, EnvPairs[i].alias)) =>
                   lookup(config.folders, EnvPairs[i].alias) = EnvPairs[i].fid

\* ":X,a:, c : Y:X " gives '' -> X, a -> '' and c -> Y:X.
C26_Witness ==
    /\ pc = "serving"
    /\ EnvEntries = << <<":", "X">>, <<"a", ":">>,
                       <<" ", "c", " ", ":", " ", "Y", ":", "X", " ">> >>
    /\ config.folders = <<[alias |-> <<>>, fid |-> <<"X">>],
                          [alias |-> <<"a">>, fid |-> <<>>],
                          [alias |-> <<"c">>, fid |-> <<"Y", ":", "X">>]>>

\* C29 as stated: every files().list() query of list_files covers the folder
\* id a creation without folder argument targets.
C29_AsStated ==
    pc = "serving" =>
        \A c \in api_calls :
            \E i \in 1..Len(c.parents) :
                c.parents[i] = get_folder_id(config, None)

\* Every Configuration from_env returns has at least one folder.
FoldersNonEmpty == pc = "serving" => config.folders # <<>>

\* C30 as stated: in every Configuration from_env returns, folders is
\* non-empty and get_folder_id without argument is not the empty string.
C30_AsStated ==
    pc = "serving" =>
        /\ config.folders # <<>>
        /\ config.folder_id # <<>>
        /\ get_folder_id(config, None) # <<>>

\* A sheet tool has invoked its delegate.
SheetInvoked == pc = "serving" /\ call.tool # "none" /\ call.kind = "sheet"

\* C25 as stated, one call in flight at a time: the id a sheet tool called
\* without id hands to its delegate is the stored id at that moment.
C25_AsStated ==
    (SheetInvoked /\ call.arg = None /\ ~call.overlapped) =>
        call.fwd = call.at

\* The same for the sheet tools that have the fallback.
C25_SerialFallback ==
    (SheetInvoked /\ call.arg = None /\ ~call.overlapped
        /\ call.tool \in FallbackSheetTools) =>
        call.fwd = call.at

\* The race: list_sheets() read the stored id s, a creation stored t, and the
\* delegate was then invoked with s.
C25_Race ==
    /\ SheetInvoked
    /\ call.tool = "list_sheets"
    /\ call.arg = None
    /\ call.overlapped
    /\ call.fwd = Some(<<"s">>)
    /\ call.at = Some(<<"t">>)

====
